---- MODULE Spec2Model ----
(***************************************************************************)
(* Model of the EXIF editor exo4.2.py: get_exif_data (decode),             *)
(* update_exif_data (encode) and the part of main() that calls them and    *)
(* saves the result as JPEG.                                               *)
(*                                                                         *)
(* An image file is a record [format, has_exif, exif]: has_exif = FALSE is *)
(* the directory state Absent (PIL's _getexif() returns None), TRUE is     *)
(* Present and exif is then the dict tag id -> value that _getexif()       *)
(* returns.  A tag value is a record [kind, text, nums] (ASCII text or a   *)
(* sequence of integers for rationals), a key of the decoded mapping is a  *)
(* record [k, name, id] (a registry name or a raw integer id).             *)
(***************************************************************************)
EXTENDS Integers, Sequences, FiniteSets, TLC

VARIABLES
    pc,             \* position in main(): "uploaded", "decoded", "submitted"
    uploaded_file,  \* the caller's image buffer (st.file_uploader)
    exif_data,      \* the dict returned by get_exif_data
    st_error,       \* the message get_exif_data gave to st.error, "" if none
    decode_raised,  \* the exception get_exif_data let escape, "" if none
    updated_exif,   \* the edit set handed to update_exif_data
    updated_image,  \* the image object update_exif_data returned
    raised,         \* the exception update_exif_data let escape, "" if none
    buf             \* the buffer written by updated_image.save

vars == <<pc, uploaded_file, exif_data, st_error, decode_raised, updated_exif,
          updated_image, raised, buf>>

\* Bounds of the model: the largest directory and the largest edit set.
MaxTags == 2
MaxEdits == 2

----------------------------------------------------------------------------
\* Values and keys

Ascii(s) == [kind |-> "ascii", text |-> s, nums |-> <<>>]
Rational(n, d) == [kind |-> "rational", text |-> "", nums |-> <<n, d>>]
RationalSeq(q) == [kind |-> "rationals", text |-> "", nums |-> q]

NameKey(n) == [k |-> "name", name |-> n, id |-> 0]
IdKey(i) == [k |-> "id", name |-> "", id |-> i]

EmptyDict == [x \in {} |-> x]

----------------------------------------------------------------------------
\* ExifTags.TAGS, the registry tag id -> name, as its items() in order.  The
\* GPS names (GPSLatitude, GPSLatitudeRef, ...) are not in TAGS: PIL keeps
\* them in the separate table GPSTAGS, which the program never consults.
TAGS_items ==
    << <<271, "Make">>, <<272, "Model">>, <<306, "DateTime">>,
       <<33434, "ExposureTime">>, <<33437, "FNumber">>,
       <<34853, "GPSInfo">>, <<34855, "ISOSpeedRatings">> >>

TAGS_keys == {TAGS_items[i][1] : i \in DOMAIN TAGS_items}

\* Variant of the lookup without the default: TAGS.get(tag) gives None for
\* every unregistered id.
TAGS_get_no_default(tag) ==
    IF tag \in TAGS_keys
    THEN NameKey(TAGS_items[CHOOSE i \in DOMAIN TAGS_items :
                                TAGS_items[i][1] = tag][2])
    ELSE NameKey("None")

\* ExifTags.TAGS.get(tag, tag)
TAGS_get_name(tag) ==
    IF tag \in TAGS_keys
    THEN NameKey(TAGS_items[CHOOSE i \in DOMAIN TAGS_items :
                                TAGS_items[i][1] = tag][2])
    ELSE IdKey(tag)

\* [k for k, v in ExifTags.TAGS.items() if v == tag_name]
RECURSIVE tag_id_from(_, _)
tag_id_from(tag_name, i) ==
    IF i > Len(TAGS_items) THEN <<>>
    ELSE (IF TAGS_items[i][2] = tag_name THEN <<TAGS_items[i][1]>> ELSE <<>>)
         \o tag_id_from(tag_name, i + 1)

tag_id_list(tag_name) == tag_id_from(tag_name, 1)

----------------------------------------------------------------------------
\* PIL: Image.open raises UnidentifiedImageError unless the container is
\* recognised; img._getexif() is None when the file has no EXIF segment.
Image_open_raises(image) == image.format # "JPEG"

getexif_is_None(image) == ~image.has_exif

\* Variant of get_exif_data without the test "if exif is not None": the loop
\* over None raises, and the except clause reports it.
get_exif_data_no_None_test(image) ==
    IF Image_open_raises(image)
    THEN [exif_data |-> EmptyDict, st_error |-> "Error: cannot identify image file",
          raised |-> ""]
    ELSE IF getexif_is_None(image)
    THEN [exif_data |-> EmptyDict,
          st_error |-> "Error: 'NoneType' object has no attribute 'items'",
          raised |-> ""]
    ELSE [exif_data |->
             [key \in {TAGS_get_name(t) : t \in DOMAIN image.exif} |->
                 image.exif[CHOOSE t \in DOMAIN image.exif :
                                TAGS_get_name(t) = key]],
          st_error |-> "", raised |-> ""]

\* get_exif_data(image): the returned dict and the message given to st.error
\* ("" when st.error is not called).  The except clause catches everything,
\* so the function always returns normally.
get_exif_data(image) ==
    IF Image_open_raises(image)
    THEN [exif_data |-> EmptyDict, st_error |-> "Error: cannot identify image file",
          raised |-> ""]
    ELSE IF getexif_is_None(image)
    THEN [exif_data |-> EmptyDict, st_error |-> "", raised |-> ""]
    ELSE [exif_data |->
             [key \in {TAGS_get_name(t) : t \in DOMAIN image.exif} |->
                 image.exif[CHOOSE t \in DOMAIN image.exif :
                                TAGS_get_name(t) = key]],
          st_error |-> "", raised |-> ""]

----------------------------------------------------------------------------
\* update_exif_data(image, updated_exif).  img is the returned image object
\* (has_exif/exif are img.info['exif']: None or the edited dict), file is
\* the caller's buffer as the call leaves it, raised the escaping exception.

\* the names of the edit set that the registry scan resolves (if tag_id:)
resolved(edits) == {n \in DOMAIN edits : tag_id_list(n) # <<>>}

\* Variant of the loop that collects the edits in a fresh dict instead of
\* writing them into the dict read from the image.
apply_edits_fresh_dict(exif, edits) ==
    [t \in {tag_id_list(n)[1] : n \in resolved(edits)} |->
        Ascii(edits[CHOOSE n \in resolved(edits) : tag_id_list(n)[1] = t])]

\* the dict exif after the loop of lines 43-47: exif[int(tag_id[0])] = value
apply_edits(exif, edits) ==
    [t \in DOMAIN exif \cup {tag_id_list(n)[1] : n \in resolved(edits)} |->
        IF \E n \in resolved(edits) : tag_id_list(n)[1] = t
        THEN Ascii(edits[CHOOSE n \in resolved(edits) : tag_id_list(n)[1] = t])
        ELSE exif[t]]

\* Variant of update_exif_data that writes the edited dict back into the
\* caller's buffer.
update_exif_data_in_place(image, edits) ==
    IF Image_open_raises(image)
    THEN [raised |-> "UnidentifiedImageError", file |-> image,
          img |-> [opened |-> FALSE, has_exif |-> FALSE, exif |-> EmptyDict]]
    ELSE IF getexif_is_None(image)
    THEN [raised |-> "", file |-> image,
          img |-> [opened |-> TRUE, has_exif |-> FALSE, exif |-> EmptyDict]]
    ELSE [raised |-> "",
          file |-> [image EXCEPT !.exif = apply_edits(image.exif, edits)],
          img |-> [opened |-> TRUE, has_exif |-> TRUE,
                   exif |-> apply_edits(image.exif, edits)]]

update_exif_data(image, edits) ==
    IF Image_open_raises(image)
    THEN [raised |-> "UnidentifiedImageError", file |-> image,
          img |-> [opened |-> FALSE, has_exif |-> FALSE, exif |-> EmptyDict]]
    ELSE IF getexif_is_None(image)
    THEN [raised |-> "", file |-> image,
          img |-> [opened |-> TRUE, has_exif |-> FALSE, exif |-> EmptyDict]]
    ELSE [raised |-> "", file |-> image,
          img |-> [opened |-> TRUE, has_exif |-> TRUE,
                   exif |-> apply_edits(image.exif, edits)]]

\* updated_image.save(buf, format="JPEG"): PIL's JPEG writer takes the EXIF
\* segment from the save() keyword "exif" (encoderinfo), default b"", and
\* does not read img.info; main passes only format.
save(img, encoderinfo) ==
    IF "exif" \in DOMAIN encoderinfo
    THEN [format |-> "JPEG", has_exif |-> TRUE, exif |-> encoderinfo["exif"]]
    ELSE [format |-> "JPEG", has_exif |-> FALSE, exif |-> EmptyDict]

save_kwargs == [x \in {} |-> x]

----------------------------------------------------------------------------
\* Inputs: the uploaded files and the edit sets, within the bounds.

DirIds == {271, 272, 33437, 65535}

DirValues(t) ==
    CASE t = 271 -> {Ascii("Canon"), Ascii("Acme")}
      [] t = 272 -> {Ascii("X100"), Ascii("EOS")}
      [] t = 33437 -> {Rational(28, 10), Rational(4, 1)}
      [] OTHER -> {Ascii("raw"), Rational(1, 1)}

Dirs ==
    UNION {{d \in [S -> UNION {DirValues(t) : t \in S}] :
               \A t \in S : d[t] \in DirValues(t)} :
           S \in {T \in SUBSET DirIds : Cardinality(T) <= MaxTags}}

NoFile == [format |-> "none", has_exif |-> FALSE, exif |-> EmptyDict]
NoImage == [opened |-> FALSE, has_exif |-> FALSE, exif |-> EmptyDict]

Files ==
    {[format |-> "other", has_exif |-> FALSE, exif |-> EmptyDict],
     [format |-> "JPEG", has_exif |-> FALSE, exif |-> EmptyDict]}
    \cup {[format |-> "JPEG", has_exif |-> TRUE, exif |-> d] : d \in Dirs}

EditNames == {"Make", "Model", "FNumber", "GPSLatitude", "GPSLatitudeRef",
              "NotARealField"}
EditTexts == {"Acme", "not-a-number", "-13.5"}

EditSets ==
    UNION {[S -> EditTexts] :
           S \in {T \in SUBSET EditNames : Cardinality(T) <= MaxEdits}}

----------------------------------------------------------------------------
Init ==
    /\ pc = "uploaded"
    /\ uploaded_file \in Files
    /\ exif_data = EmptyDict
    /\ st_error = ""
    /\ decode_raised = ""
    /\ updated_exif = EmptyDict
    /\ updated_image = NoImage
    /\ raised = ""
    /\ buf = NoFile

\* main, line 91: exif_data = get_exif_data(uploaded_file)
Decode ==
    /\ pc = "uploaded"
    /\ LET r == get_exif_data(uploaded_file) IN
          /\ exif_data' = r.exif_data
          /\ st_error' = r.st_error
          /\ decode_raised' = r.raised
    /\ pc' = "decoded"
    /\ UNCHANGED <<uploaded_file, updated_exif, updated_image, raised, buf>>

\* main, lines 112-134: the submit handler, with the edit set e: the call of
\* update_exif_data and, when it returns, the JPEG save into buf.  (The map
\* drawn afterwards, lines 136-143, only displays and keeps no state.)
Submit(e) ==
    /\ pc = "decoded"
    /\ updated_exif' = e
    /\ LET r == update_exif_data(uploaded_file, e) IN
          /\ uploaded_file' = r.file
          /\ updated_image' = r.img
          /\ raised' = r.raised
          /\ buf' = IF r.raised = "" THEN save(r.img, save_kwargs) ELSE buf
    /\ pc' = "submitted"
    /\ UNCHANGED <<exif_data, st_error, decode_raised>>

Next == Decode \/ \E e \in EditSets : Submit(e)

Spec == Init /\ [][Next]_vars

----------------------------------------------------------------------------
\* Vocabulary of the claims

IsJPEG == uploaded_file.format = "JPEG"
Present == IsJPEG /\ uploaded_file.has_exif
Absent == IsJPEG /\ ~uploaded_file.has_exif

\* the tag t is named by a key of the edit set
NamedInEdits(t) ==
    \E i \in DOMAIN TAGS_items :
        TAGS_items[i][1] = t /\ TAGS_items[i][2] \in DOMAIN updated_exif

RegistryNames == {TAGS_items[i][2] : i \in DOMAIN TAGS_items}

NumericFields == {"FNumber", "ExposureTime", "ISOSpeedRatings"}

\* the form texts that read as a number, and their value in arc-seconds
\* (1/3600 degree) when read as decimal degrees
IsNumericText(s) == s \in {"-13.5"}
DecimalDegreesInArcsec(s) == IF s = "-13.5" THEN 0 - 48600 ELSE 0
Abs(x) == IF x < 0 THEN 0 - x ELSE x
\* degrees, minutes, seconds of a non-negative angle given in arc-seconds
ToDMS(a) == <<a \div 3600, (a % 3600) \div 60, a % 60>>

----------------------------------------------------------------------------
\* C1: partial update.  After update_exif_data on a Present directory every
\* tag of the original directory whose name is not a key of the edit set is
\* still in the resulting directory with its original value, and a tag that
\* is new or differs is named in the edit set.
C1_PartialUpdate ==
    (pc = "submitted" /\ Present) =>
        /\ raised = ""
        /\ updated_image.has_exif
        /\ \A t \in DOMAIN uploaded_file.exif :
              ~NamedInEdits(t) =>
                  /\ t \in DOMAIN updated_image.exif
                  /\ updated_image.exif[t] = uploaded_file.exif[t]
        /\ \A t \in DOMAIN updated_image.exif :
              (t \notin DOMAIN uploaded_file.exif
               \/ updated_image.exif[t] # uploaded_file.exif[t])
                  => NamedInEdits(t)

\* Make is edited to a new value while Model, not in the edit set, is there.
C1_Witness ==
    /\ pc = "submitted" /\ Present
    /\ DOMAIN updated_exif = {"Make"}
    /\ DOMAIN uploaded_file.exif = {271, 272}
    /\ updated_image.exif[271] # uploaded_file.exif[271]
    /\ updated_image.exif[272] = Ascii("X100")

\* C2: an edit set with a key that has no id in the registry makes
\* update_exif_data end in the error UnknownTagName, with no updated image.
C2_UnknownTagName ==
    (pc = "submitted" /\ \E n \in DOMAIN updated_exif : n \notin RegistryNames)
        => (raised = "UnknownTagName" /\ ~updated_image.opened)

\* C3: insertion.  On an Absent directory, a non-empty edit set whose names
\* all resolve does not fail and yields a Present directory holding each
\* edited tag with its new value.
C3_Insertion ==
    (/\ pc = "submitted" /\ Absent
     /\ DOMAIN updated_exif # {}
     /\ DOMAIN updated_exif \subseteq RegistryNames)
        => /\ raised = ""
           /\ updated_image.has_exif
           /\ \A n \in DOMAIN updated_exif :
                 \E t \in DOMAIN updated_image.exif :
                     /\ NameKey(n) = TAGS_get_name(t)
                     /\ updated_image.exif[t].text = updated_exif[n]

\* C4: a non-numeric string for a numeric field makes update_exif_data end
\* in the error InvalidFieldValue, and the string is never stored as the
\* value of the tag.
C4_InvalidFieldValue ==
    \A n \in NumericFields :
        (/\ pc = "submitted" /\ IsJPEG
         /\ n \in DOMAIN updated_exif
         /\ ~IsNumericText(updated_exif[n]))
            => /\ raised = "InvalidFieldValue"
               /\ \A t \in DOMAIN updated_image.exif :
                     TAGS_get_name(t) = NameKey(n) =>
                         updated_image.exif[t] # Ascii(updated_exif[n])

\* C5: get_exif_data on a readable image whose directory is Absent returns
\* the empty mapping and reports no error.
C5_AbsentDecodesEmpty ==
    (pc # "uploaded" /\ Absent) =>
        /\ exif_data = EmptyDict
        /\ st_error = ""
        /\ decode_raised = ""

C5_Witness == pc = "decoded" /\ Absent

\* C6: on bytes that are not a recognized container get_exif_data fails
\* with an error outcome and yields no directory, so that the caller can
\* tell the outcome from the empty directory of an image without metadata.
C6_UnsupportedFormat ==
    (pc # "uploaded" /\ ~IsJPEG) => decode_raised # ""

\* C7: round trip.  Decoding the buffer written after update_exif_data with
\* the empty edit set gives the same keys and values as decoding the image.
C7_RoundTripEmptyEdits ==
    (pc = "submitted" /\ raised = "" /\ DOMAIN updated_exif = {})
        => get_exif_data(buf).exif_data = get_exif_data(uploaded_file).exif_data

\* C8: an edit that sets GPSLatitude to the signed decimal degrees v leaves
\* in the resulting directory the degrees/minutes/seconds triple of |v| and
\* the reference S when v is negative, N otherwise.  Stated where a
\* directory is Present, so that it does not rest on the insertion case.
C8_GPSConversion ==
    (/\ pc = "submitted" /\ Present
     /\ "GPSLatitude" \in DOMAIN updated_exif
     /\ IsNumericText(updated_exif["GPSLatitude"]))
        => LET v == DecimalDegreesInArcsec(updated_exif["GPSLatitude"]) IN
           /\ raised = ""
           /\ \E t \in DOMAIN updated_image.exif :
                 updated_image.exif[t] = RationalSeq(ToDMS(Abs(v)))
           /\ \E t \in DOMAIN updated_image.exif :
                 updated_image.exif[t] = Ascii(IF v < 0 THEN "S" ELSE "N")

C10_InputNotMutated ==
    [][pc = "decoded" => uploaded_file' = uploaded_file]_vars

\* an edit has gone into the returned image while the buffer keeps the
\* original directory
C10_Witness ==
    /\ pc = "submitted" /\ Present
    /\ raised = ""
    /\ updated_image.exif # uploaded_file.exif

====
